---- MODULE Spec2Model ----
(***************************************************************************)
(* Battle session orchestrator of the roast-arena backend (server.ts):     *)
(* matchmaking queue, session directory, round timers, bot fallback,       *)
(* bot replies, forfeit and normal end of a battle.                        *)
(*                                                                         *)
(* Every socket handler and every timer callback is one atomic action (a   *)
(* task of the Node.js event loop).  An `await` splits a function in two   *)
(* actions: the part before the await, and the continuation, which holds   *)
(* the references it closed over.  Battle objects live in `heap`; the map  *)
(* `battles` (the directory) maps a battle id to a heap reference, so a    *)
(* continuation can hold an object that is no longer in the directory.     *)
(***************************************************************************)
EXTENDS Integers, Sequences, FiniteSets, Bags, TLC

\* ---------------------------------------------------------------- bounds
NSock == 3          \* connections that ever exist
NIp == 2            \* distinct network origins
MaxBattles == 2     \* battle objects ever created (pending creations included)
LifeSock == 2       \* connections in the one-battle specification
LifeBattles == 1    \* battles in the one-battle specification
LifeMsgs == 1       \* lines per transcript in the one-battle specification
MaxInFlight == 2    \* bot replies suspended on the reply oracle at once
NConn == 22         \* connections in the spectator specification
Movers == 1         \* the connections of it that queue and disconnect
MaxStamp == 52      \* milliseconds in which reactions are sent
TieWindow == 1      \* armed expiry timers when two reactions share a millisecond
MaxLines == 3       \* lines per transcript in the transcript specification

\* ------------------------------------------------------ program constants
MaxRounds == 3
MaxSpectators == 20 \* battle.spectators.length >= 20
MaxReactions == 50  \* battle.reactions.slice(-50)
BotIdBase == 100
NoPlayer == 0

Sockets == 1..NConn
IpHashes == 1..NIp
BattleIds == 1..MaxBattles

BOT_NAMES ==
  {"RoboRival", "ByteBrawler", "SnarkCircuit", "QuipQuasar", "NeuroNinja",
   "WitWidget", "PunProcessor", "JestEngine", "SavageScript", "LaughLoop"}

UserNames == {"ann", "RoboRival"}

VARIABLES
  conn,            \* socket -> "new" | "live" | "dead"; live = io.sockets.sockets
  ipOf,            \* socket -> socket.data.ipHash (0 before the connection)
  waitingPlayers,  \* sequence of Player
  waitingSet,      \* set of socket ids
  botTimeouts,     \* socket ids with an armed bot-fallback timer
  battles,         \* directory: insertion-ordered Map of [id, ref] entries
  heap,            \* sequence of Battle objects
  creating,        \* bag of createBattle calls suspended on generateRoastTopic
  judging,         \* endBattle calls suspended on the judge or on the store
  botReplies,      \* bag of bot-timer callbacks suspended on generateBotRoast
  cleanups,        \* bag of battle ids with an armed 60s cleanup timer
  lastId,          \* the value of Date.now() used by the last createBattle
  nBots,           \* bot players made so far
  mongoUri,        \* whether a durable store is configured
  out              \* the event the last task emitted to its socket or to the room

vars == <<conn, ipOf, waitingPlayers, waitingSet, botTimeouts, battles, heap,
          creating, judging, botReplies, cleanups, lastId, nBots, mongoUri, out>>

\* ------------------------------------------------------------------ types
Player(id, username, socketId, ipHash, isBot) ==
  [id |-> id, username |-> username, socketId |-> socketId,
   ipHash |-> ipHash, isBot |-> isBot]

NoResult == [kind |-> "none", winner |-> NoPlayer, s1 |-> 0, s2 |-> 0]

NoOut == "none"

Live == {s \in Sockets : conn[s] = "live"}

\* Array.prototype.findIndex / find: the least of the indices that satisfy the
\* test, 0 when none does
FirstIndex(hits) ==
  IF hits = {} THEN 0 ELSE CHOOSE i \in hits : \A j \in hits : i <= j

RemoveAt(seq, i) == SubSeq(seq, 1, i - 1) \o SubSeq(seq, i + 1, Len(seq))

\* ------------------------------------------------------------------ Init
Init ==
  /\ conn = [s \in Sockets |-> "new"]
  /\ ipOf = [s \in Sockets |-> 0]
  /\ waitingPlayers = <<>>
  /\ waitingSet = {}
  /\ botTimeouts = {}
  /\ battles = <<>>
  /\ heap = <<>>
  /\ creating = EmptyBag
  /\ judging = {}
  /\ botReplies = EmptyBag
  /\ cleanups = EmptyBag
  /\ lastId = 0
  /\ nBots = 0
  /\ mongoUri \in BOOLEAN
  /\ out = NoOut

\* ------------------------------------------------------------ matchmaking
\* mutant: the bot player lacks its isBot flag
makeBotPlayerNoFlag(n, name) == Player(BotIdBase + n, name, BotIdBase + n, 0, FALSE)

\* makeBotPlayer: a fresh bot id and a name drawn from BOT_NAMES
makeBotPlayer(n, name) == Player(BotIdBase + n, name, BotIdBase + n, 0, TRUE)

\* inner loop of the pairing: shift candidates until one is live and is not p1
RECURSIVE ScanCandidate(_, _, _, _)
ScanCandidate(wp, ws, p1, live) ==
  IF wp = <<>> THEN [found |-> FALSE, p2 |-> p1, wp |-> wp, ws |-> ws]
  ELSE LET candidate == Head(wp) IN
       IF candidate.socketId \in live /\ candidate.socketId # p1.socketId
       THEN [found |-> TRUE, p2 |-> candidate, wp |-> Tail(wp), ws |-> ws]
       ELSE ScanCandidate(Tail(wp), ws \ {candidate.socketId}, p1, live)

\* mutant: a pairing leaves both sockets in the waiting set
RECURSIVE PairLoopKeepsSet(_, _, _, _, _)
PairLoopKeepsSet(wp, ws, bt, pairs, live) ==
  IF Len(wp) < 2 THEN [wp |-> wp, ws |-> ws, bt |-> bt, pairs |-> pairs]
  ELSE LET p1 == Head(wp) IN
       IF p1.socketId \notin live
       THEN PairLoopKeepsSet(Tail(wp), ws \ {p1.socketId}, bt, pairs, live)
       ELSE LET r == ScanCandidate(Tail(wp), ws, p1, live) IN
            IF ~r.found
            THEN [wp |-> <<p1>> \o r.wp, ws |-> r.ws, bt |-> bt, pairs |-> pairs]
            ELSE PairLoopKeepsSet(r.wp,
                          r.ws,
                          bt \ {p1.socketId, r.p2.socketId},
                          Append(pairs, <<p1, r.p2>>), live)

\* outer loop of the pairing; pairs accumulates the createBattle calls made
RECURSIVE PairLoop(_, _, _, _, _)
PairLoop(wp, ws, bt, pairs, live) ==
  IF Len(wp) < 2 THEN [wp |-> wp, ws |-> ws, bt |-> bt, pairs |-> pairs]
  ELSE LET p1 == Head(wp) IN
       IF p1.socketId \notin live
       THEN PairLoop(Tail(wp), ws \ {p1.socketId}, bt, pairs, live)
       ELSE LET r == ScanCandidate(Tail(wp), ws, p1, live) IN
            IF ~r.found
            THEN [wp |-> <<p1>> \o r.wp, ws |-> r.ws, bt |-> bt, pairs |-> pairs]
            ELSE PairLoop(r.wp,
                          r.ws \ {p1.socketId, r.p2.socketId},
                          bt \ {p1.socketId, r.p2.socketId},
                          Append(pairs, <<p1, r.p2>>), live)

\* the Map operations on the directory
Has(dir, id) == \E i \in 1..Len(dir) : dir[i].id = id

Get(dir, id) == (CHOOSE i \in 1..Len(dir) : dir[i].id = id)

Set(dir, id, ref) ==
  IF Has(dir, id)
  THEN [i \in 1..Len(dir) |-> IF dir[i].id = id THEN [id |-> id, ref |-> ref] ELSE dir[i]]
  ELSE Append(dir, [id |-> id, ref |-> ref])

Delete(dir, id) == SelectSeq(dir, LAMBDA e : e.id # id)

RefOf(id) == battles[Get(battles, id)].ref

\* the reconnection scan of findMatch: the first directory entry, in iteration
\* order, whose battle is active and has a player with this origin token
ReconnectTarget(ip) ==
  IF ip = 0 THEN 0
  ELSE FirstIndex({k \in 1..Len(battles) :
         /\ heap[battles[k].ref].status = "active"
         /\ \E i \in 1..2 : /\ heap[battles[k].ref].players[i].ipHash # 0
                            /\ heap[battles[k].ref].players[i].ipHash = ip})

\* createBattle up to its await: the id is Date.now(), the rest is suspended
RECURSIVE StartCreates(_, _)
StartCreates(pairs, id) ==
  IF pairs = <<>> THEN EmptyBag
  ELSE SetToBag({[id |-> id, p1 |-> Head(pairs)[1], p2 |-> Head(pairs)[2]]})
       (+) StartCreates(Tail(pairs), id)

\* Date.now() of a createBattle call: the millisecond of the previous call or a
\* later one (only equality of ids matters)
ClockValue(id) == id \in {lastId, lastId + 1} \ {0}

\* battles made or being made, plus one for each waiting participant (who will
\* get a battle when paired or when the fallback timer fires)
Load == Len(heap) + BagCardinality(creating) + Len(waitingPlayers)

Connect(s) ==
  /\ conn[s] = "new"
  /\ \A t \in Sockets : t < s => conn[t] # "new"
  /\ \E ip \in IpHashes :
       /\ \A k \in 1..(ip - 1) : \E t \in Sockets : ipOf[t] = k
       /\ ipOf' = [ipOf EXCEPT ![s] = ip]
  /\ conn' = [conn EXCEPT ![s] = "live"]
  /\ out' = NoOut
  /\ UNCHANGED <<waitingPlayers, waitingSet, botTimeouts, battles, heap, creating,
                 judging, botReplies, cleanups, lastId, nBots, mongoUri>>

\* mutant: the reconnection branch lacks its return and goes on to enqueue
FindMatchReconnectNoReturn(s) ==
  /\ conn[s] = "live"
  /\ ReconnectTarget(ipOf[s]) # 0
  /\ LET ref == battles[ReconnectTarget(ipOf[s])].ref
         b == heap[ref]
         playerIndex == FirstIndex({i \in 1..Len(b.players) :
                          b.players[i].ipHash # 0 /\ b.players[i].ipHash = ipOf[s]})
     IN /\ heap' = [heap EXCEPT ![ref].players[playerIndex].socketId = s]
        /\ out' = "battleState"
  /\ waitingPlayers' = IF s \in waitingSet THEN waitingPlayers
                       ELSE Append(waitingPlayers, Player(s, "ann", s, ipOf[s], FALSE))
  /\ waitingSet' = waitingSet \cup {s}
  /\ botTimeouts' = botTimeouts \cup {s}
  /\ UNCHANGED <<conn, ipOf, battles, creating, judging, botReplies, cleanups,
                 lastId, nBots, mongoUri>>

\* socket.on('findMatch'), reconnection branch
FindMatchReconnect(s) ==
  /\ conn[s] = "live"
  /\ ReconnectTarget(ipOf[s]) # 0
  /\ LET ref == battles[ReconnectTarget(ipOf[s])].ref
         b == heap[ref]
         playerIndex == FirstIndex({i \in 1..Len(b.players) :
                          b.players[i].ipHash # 0 /\ b.players[i].ipHash = ipOf[s]})
     IN /\ heap' = [heap EXCEPT ![ref].players[playerIndex].socketId = s]
        /\ out' = "battleState"
  /\ UNCHANGED <<conn, ipOf, waitingPlayers, waitingSet, botTimeouts, battles,
                 creating, judging, botReplies, cleanups, lastId, nBots, mongoUri>>

\* socket.on('findMatch'), already in the waiting set
FindMatchDuplicate(s) ==
  /\ conn[s] = "live"
  /\ ReconnectTarget(ipOf[s]) = 0
  /\ s \in waitingSet
  /\ out' = "searchingMatch"
  /\ UNCHANGED <<conn, ipOf, waitingPlayers, waitingSet, botTimeouts, battles, heap,
                 creating, judging, botReplies, cleanups, lastId, nBots, mongoUri>>

\* mutant: findMatch does not arm the fallback timer
FindMatchEnqueueNoTimer(s, username) ==
  /\ conn[s] = "live"
  /\ ReconnectTarget(ipOf[s]) = 0
  /\ s \notin waitingSet
  /\ LET player == Player(s, username, s, ipOf[s], FALSE)
         r == PairLoop(Append(waitingPlayers, player), waitingSet \cup {s},
                       botTimeouts, <<>>, Live)
     IN /\ waitingPlayers' = r.wp
        /\ waitingSet' = r.ws
        /\ botTimeouts' = r.bt
        /\ IF r.pairs = <<>>
           THEN UNCHANGED <<creating, lastId>>
           ELSE \E id \in BattleIds :
                  /\ ClockValue(id)
                  /\ creating' = creating (+) StartCreates(r.pairs, id)
                  /\ lastId' = id
        /\ out' = "searchingMatch"
  /\ UNCHANGED <<conn, ipOf, battles, heap, judging, botReplies, cleanups,
                 nBots, mongoUri>>

\* socket.on('findMatch'), enqueue, pairing loop and fallback timer
FindMatchEnqueue(s, username) ==
  /\ conn[s] = "live"
  /\ ReconnectTarget(ipOf[s]) = 0
  /\ s \notin waitingSet
  /\ LET player == Player(s, username, s, ipOf[s], FALSE)
         r == PairLoop(Append(waitingPlayers, player), waitingSet \cup {s},
                       botTimeouts, <<>>, Live)
     IN /\ waitingPlayers' = r.wp
        /\ waitingSet' = r.ws
        /\ botTimeouts' = IF s \in r.ws /\ s \notin r.bt THEN r.bt \cup {s} ELSE r.bt
        /\ IF r.pairs = <<>>
           THEN UNCHANGED <<creating, lastId>>
           ELSE \E id \in BattleIds :
                  /\ ClockValue(id)
                  /\ creating' = creating (+) StartCreates(r.pairs, id)
                  /\ lastId' = id
        /\ out' = "searchingMatch"
  /\ UNCHANGED <<conn, ipOf, battles, heap, judging, botReplies, cleanups,
                 nBots, mongoUri>>

\* ---------------------------------------------------------- battle objects
\* mutant: both players are given the first side
MakeSidesBothFirst(player1, player2) ==
  [k \in {player1.id, player2.id} |-> "option1"]

\* the side map built by createBattle: an object literal keyed by player id
MakeSides(player1, player2) ==
  [k \in {player1.id, player2.id} |-> IF k = player2.id THEN "option2" ELSE "option1"]

NewBattle(id, player1, player2) ==
  [id |-> id,
   players |-> <<player1, player2>>,
   playerSides |-> MakeSides(player1, player2),
   currentRound |-> 1,
   status |-> "active",
   messages |-> <<>>,
   spectators |-> <<>>,
   reactions |-> <<>>,   \* the timestamps of the reactions of the live feed
   expiries |-> <<>>,    \* the timestamps of the armed 3s expiry timers, oldest first
   clock |-> 0,          \* Date.now() of the last accepted reaction
   topic |-> "generated",
   result |-> NoResult,
   timerId |-> FALSE, timerLive |-> FALSE,
   botTimerId |-> FALSE, botTimerLive |-> FALSE,
   isBotBattle |-> (player1.isBot \/ player2.isBot),
   botPlayerId |-> IF player1.isBot THEN player1.id
                   ELSE IF player2.isBot THEN player2.id ELSE NoPlayer,
   started |-> 0,       \* 'battleStarted' broadcasts
   rounds |-> 0,        \* 'roundChanged' broadcasts
   ended |-> 0,         \* 'battleEnded' broadcasts
   writes |-> 0,        \* final-snapshot writes issued to the store
   judged |-> 0,        \* calls of the judging oracle
   profileWins |-> <<0, 0>>,    \* 'win' profile upserts issued for players[1], players[2]
   profileLosses |-> <<0, 0>>,  \* 'loss' profile upserts issued for players[1], players[2]
   events |-> 0,        \* broadcasts of battleStarted, newMessage, roundChanged, battleEnded
   stored |-> 0,        \* writes of the battle document issued to the store
   player1Messages |-> <<>>,   \* the sub-transcripts endBattle handed to judgeBattle
   player2Messages |-> <<>>]

\* one broadcast to the room and, where the code has one and a store is
\* configured, one write of the battle document
Effects(b, persists) ==
  [b EXCEPT !.events = @ + 1,
            !.stored = IF persists /\ mongoUri THEN @ + 1 ELSE @]

\* clearTimeout(battle.timerId); battle.timerId = undefined
ClearRoundTimer(b) == [b EXCEPT !.timerId = FALSE, !.timerLive = FALSE]

ClearBotTimer(b) == [b EXCEPT !.botTimerId = FALSE, !.botTimerLive = FALSE]

\* battle.timerId = setTimeout(() => nextRound(battleId), 60000)
ArmRoundTimer(b) == [b EXCEPT !.timerId = TRUE, !.timerLive = TRUE]

\* scheduleBotMessage on the directory's object for the id
ScheduleBot(b) ==
  IF b.status # "active" \/ ~b.isBotBattle THEN b
  ELSE LET c == ClearBotTimer(b)
           hasBot == \E i \in 1..2 : c.players[i].id = c.botPlayerId
           hasHuman == \E i \in 1..2 : c.players[i].id # c.botPlayerId
       IN IF ~hasBot \/ ~hasHuman THEN c
          ELSE [c EXCEPT !.botTimerId = TRUE, !.botTimerLive = TRUE]

BotOf(b) == b.players[FirstIndex({i \in 1..Len(b.players) : b.players[i].id = b.botPlayerId})]

\* mutant: endBattleEarly does not set the status
EndEarlyKeepsStatus(b, winnerPlayer) ==
  LET c == ClearRoundTimer(b)
      winnerIndex == FirstIndex({i \in 1..Len(c.players) : c.players[i].id = winnerPlayer.id})
  IN [c EXCEPT !.result = [kind |-> "forfeit", winner |-> winnerPlayer.id,
                           s1 |-> IF winnerIndex = 1 THEN 30 ELSE 0,
                           s2 |-> IF winnerIndex = 2 THEN 30 ELSE 0],
               !.ended = @ + 1,
               !.writes = IF mongoUri THEN @ + 1 ELSE @,
               !.events = @ + 1,
               !.stored = IF mongoUri THEN @ + 1 ELSE @]

\* endBattleEarly past its guard, on the object: everything but the cleanup timer
EndEarly(b, winnerPlayer) ==
  LET c == ClearRoundTimer(b)
      winnerIndex == FirstIndex({i \in 1..Len(c.players) : c.players[i].id = winnerPlayer.id})
  IN [c EXCEPT !.status = "ended",
               !.result = [kind |-> "forfeit", winner |-> winnerPlayer.id,
                           s1 |-> IF winnerIndex = 1 THEN 30 ELSE 0,
                           s2 |-> IF winnerIndex = 2 THEN 30 ELSE 0],
               !.ended = @ + 1,
               !.writes = IF mongoUri THEN @ + 1 ELSE @,
               !.events = @ + 1,
               !.stored = IF mongoUri THEN @ + 1 ELSE @]

\* mutant: endBattleEarly without its guard on the status
endBattleEarlyNoGuard(b, winnerPlayer) == EndEarly(b, winnerPlayer)

\* endBattleEarly on the directory's object for the id (a missing id returns
\* before anything is read)
endBattleEarly(b, winnerPlayer) ==
  IF b.status = "ended" THEN b ELSE EndEarly(b, winnerPlayer)

\* the 'battle already ended or no remaining player' branch of disconnect
DisconnectCleanup(b) ==
  [ClearBotTimer(ClearRoundTimer(b)) EXCEPT
     !.status = "ended", !.ended = @ + 1, !.events = @ + 1]

DropSpectator(b, s) ==
  [b EXCEPT !.spectators = SelectSeq(@, LAMBDA x : x # s)]

\* what disconnect's forEach does to one directory entry
PlayerIndexOf(b, s) == FirstIndex({i \in 1..Len(b.players) : b.players[i].socketId = s})

RemainingIndex(b, s) == FirstIndex({i \in 1..Len(b.players) : b.players[i].socketId # s})

ForfeitsOnDisconnect(b, s) ==
  PlayerIndexOf(b, s) # 0 /\ RemainingIndex(b, s) # 0 /\ b.status = "active"

DeletedOnDisconnect(b, s) ==
  PlayerIndexOf(b, s) # 0 /\ ~ForfeitsOnDisconnect(b, s)

\* mutant: disconnect leaves the spectator lists alone
DisconnectObjectKeepsSpectator(b, s) ==
  IF ForfeitsOnDisconnect(b, s) THEN endBattleEarly(b, b.players[RemainingIndex(b, s)])
  ELSE IF DeletedOnDisconnect(b, s) THEN DisconnectCleanup(b)
  ELSE b

DisconnectObject(b, s) ==
  DropSpectator(
    IF ForfeitsOnDisconnect(b, s) THEN endBattleEarly(b, b.players[RemainingIndex(b, s)])
    ELSE IF DeletedOnDisconnect(b, s) THEN DisconnectCleanup(b)
    ELSE b, s)

InDirectory(ref) == \E i \in 1..Len(battles) : battles[i].ref = ref

\* socket.on('disconnect')
Disconnect(s) ==
  /\ conn[s] = "live"
  /\ conn' = [conn EXCEPT ![s] = "dead"]
  /\ LET waitingIndex == FirstIndex({i \in 1..Len(waitingPlayers) :
                           waitingPlayers[i].socketId = s})
     IN waitingPlayers' = IF waitingIndex # 0 THEN RemoveAt(waitingPlayers, waitingIndex)
                          ELSE waitingPlayers
  /\ heap' = [r \in DOMAIN heap |->
                IF InDirectory(r) THEN DisconnectObject(heap[r], s) ELSE heap[r]]
  /\ battles' = SelectSeq(battles, LAMBDA e : ~DeletedOnDisconnect(heap[e.ref], s))
  /\ cleanups' = cleanups (+) SetToBag({e.id : e \in
                   {battles[i] : i \in {j \in 1..Len(battles) :
                                          ForfeitsOnDisconnect(heap[battles[j].ref], s)}}})
  /\ out' = NoOut
  /\ UNCHANGED <<ipOf, waitingSet, botTimeouts, creating, judging, botReplies,
                 lastId, nBots, mongoUri>>

\* what generateRoastTopic resolves to: a generated topic, or, when generation
\* throws, a topic of the curated pool (getFallbackTopic)
Topics == {"generated", "curated"}

\* createBattle after generateRoastTopic resolved to topic
CreateBattleTopic(c, topic) ==
  /\ BagIn(c, creating)
  /\ creating' = creating (-) SetToBag({c})
  /\ LET ref == Len(heap) + 1
         b0 == Effects([NewBattle(c.id, c.p1, c.p2) EXCEPT !.started = 1, !.topic = topic],
                       TRUE)
         b == ScheduleBot(ArmRoundTimer(b0))
     IN /\ heap' = Append(heap, b)
        /\ battles' = Set(battles, c.id, ref)
  /\ out' = NoOut
  /\ UNCHANGED <<conn, ipOf, waitingPlayers, waitingSet, botTimeouts, judging,
                 botReplies, cleanups, lastId, nBots, mongoUri>>

\* createBattle after the topic was generated
CreateBattleResume(c) == CreateBattleTopic(c, "generated")

\* -------------------------------------------------------- rounds and ending
\* mutant: nextRound does not re-arm the round timer
AdvanceRoundNoArm(b) ==
  ScheduleBot(Effects([ClearRoundTimer(b) EXCEPT
                         !.currentRound = @ + 1, !.rounds = @ + 1], FALSE))

\* mutant: nextRound also writes the battle document
AdvanceRoundStores(b) ==
  ScheduleBot(ArmRoundTimer(Effects([ClearRoundTimer(b) EXCEPT
                               !.currentRound = @ + 1, !.rounds = @ + 1], TRUE)))

\* nextRound past its guard, when currentRound < maxRounds
AdvanceRound(b) ==
  ScheduleBot(ArmRoundTimer(Effects([ClearRoundTimer(b) EXCEPT
                               !.currentRound = @ + 1, !.rounds = @ + 1], FALSE)))

\* endBattle up to the await of judgeBattle (it has no guard on the status)
EndBattleStart(b) ==
  [ClearBotTimer(ClearRoundTimer(b)) EXCEPT
     !.status = "ended", !.judged = @ + 1,
     !.player1Messages = SelectSeq(b.messages, LAMBDA msg : msg.playerId = b.players[1].id),
     !.player2Messages = SelectSeq(b.messages, LAMBDA msg : msg.playerId = b.players[2].id)]

\* mutant: nextRound compares currentRound <= maxRounds
RoundTimerFireOffByOne(ref) ==
  /\ ref \in DOMAIN heap
  /\ heap[ref].timerLive
  /\ LET id == heap[ref].id
         fired == [heap EXCEPT ![ref].timerLive = FALSE]
     IN IF ~Has(battles, id) \/ fired[RefOf(id)].status = "ended"
        THEN /\ heap' = fired
             /\ UNCHANGED judging
        ELSE LET tgt == RefOf(id) IN
             IF fired[tgt].currentRound <= MaxRounds
             THEN /\ heap' = [fired EXCEPT ![tgt] = AdvanceRound(@)]
                  /\ UNCHANGED judging
             ELSE /\ heap' = [fired EXCEPT ![tgt] = EndBattleStart(@)]
                  /\ judging' = judging \cup {[ref |-> tgt, pc |-> "judge"]}
  /\ out' = NoOut
  /\ UNCHANGED <<conn, ipOf, waitingPlayers, waitingSet, botTimeouts, battles,
                 creating, botReplies, cleanups, lastId, nBots, mongoUri>>

\* the round timer armed by object ref fires: nextRound(id of that object)
RoundTimerFire(ref) ==
  /\ ref \in DOMAIN heap
  /\ heap[ref].timerLive
  /\ LET id == heap[ref].id
         fired == [heap EXCEPT ![ref].timerLive = FALSE]
     IN IF ~Has(battles, id) \/ fired[RefOf(id)].status = "ended"
        THEN /\ heap' = fired
             /\ UNCHANGED judging
        ELSE LET tgt == RefOf(id) IN
             IF fired[tgt].currentRound < MaxRounds
             THEN /\ heap' = [fired EXCEPT ![tgt] = AdvanceRound(@)]
                  /\ UNCHANGED judging
             ELSE /\ heap' = [fired EXCEPT ![tgt] = EndBattleStart(@)]
                  /\ judging' = judging \cup {[ref |-> tgt, pc |-> "judge"]}
  /\ out' = NoOut
  /\ UNCHANGED <<conn, ipOf, waitingPlayers, waitingSet, botTimeouts, battles,
                 creating, botReplies, cleanups, lastId, nBots, mongoUri>>

\* what a judging call meets: whether the oracle answers with usable JSON
\* (ok), the two totals it gives, or the totals getFallbackJudgment draws and
\* its randomWinner (pick), and the difficulties of the two players' sides
Judgments ==
  {[ok |-> TRUE, t1 |-> 23, t2 |-> 19, d1 |-> 4, d2 |-> 4, pick |-> 1],
   [ok |-> TRUE, t1 |-> 19, t2 |-> 23, d1 |-> 4, d2 |-> 4, pick |-> 1]}

\* the fairness bonus of a side
bonus(difficulty) == IF difficulty > 6 THEN 2 ELSE IF difficulty > 4 THEN 1 ELSE 0

\* judgment.player1?.total || 21
ReportedTotal(total) == IF total = 0 THEN 21 ELSE total

\* getFallbackJudgment: the random winner's total is raised above the other's
getFallbackJudgment(jd) ==
  [playerId |-> jd.pick,
   t1 |-> IF jd.pick = 1 /\ jd.t1 <= jd.t2 THEN jd.t2 + 1 ELSE jd.t1,
   t2 |-> IF jd.pick = 2 /\ jd.t2 <= jd.t1 THEN jd.t1 + 1 ELSE jd.t2]

\* judgeBattle: bonus, winner recalculated by display name, then mapped back
\* to 'player1' / 'player2' by comparing display names
judgeBattle(player1Username, player2Username, jd) ==
  IF jd.ok
  THEN LET total1 == jd.t1 + bonus(jd.d1)
           total2 == jd.t2 + bonus(jd.d2)
           winnerUsername == IF total1 > total2 THEN player1Username
                             ELSE player2Username
       IN [playerId |-> IF winnerUsername = player1Username THEN 1 ELSE 2,
           t1 |-> ReportedTotal(total1), t2 |-> ReportedTotal(total2)]
  ELSE getFallbackJudgment(jd)

\* the Result endBattle assembles from the judgment
JudgedResult(b, jd) ==
  LET judgment == judgeBattle(b.players[1].username, b.players[2].username, jd)
  IN [kind |-> "judged", winner |-> b.players[judgment.playerId].id,
      s1 |-> judgment.t1, s2 |-> judgment.t2]

\* the Result of endBattle's catch block; w is the random winner index
FallbackResult(b, w) ==
  [kind |-> "fallback", winner |-> b.players[w].id,
   s1 |-> IF w = 1 THEN 23 ELSE 19, s2 |-> IF w = 2 THEN 23 ELSE 19]

\* endBattle resumes with the judgment: Result, broadcast, then the store
EndBattleJudged(j, jd) ==
  /\ j \in judging /\ j.pc = "judge"
  /\ heap' = [heap EXCEPT ![j.ref] =
                Effects([@ EXCEPT !.result = JudgedResult(heap[j.ref], jd),
                                  !.ended = @ + 1,
                                  !.writes = IF mongoUri THEN @ + 1 ELSE @], TRUE)]
  /\ IF mongoUri
     THEN /\ judging' = (judging \ {j}) \cup {[ref |-> j.ref, pc |-> "write"]}
          /\ UNCHANGED cleanups
     ELSE /\ judging' = judging \ {j}
          /\ cleanups' = cleanups (+) SetToBag({heap[j.ref].id})
  /\ out' = NoOut
  /\ UNCHANGED <<conn, ipOf, waitingPlayers, waitingSet, botTimeouts, battles,
                 creating, botReplies, lastId, nBots, mongoUri>>

\* the profile upserts endBattle issues once its snapshot write has resolved:
\* the winner's if the winner has an ipHash, then the loser's if the loser has
\* one; winnerOk tells whether the winner's upsert resolves (if it rejects, the
\* catch around the two skips the loser's)
UpdateProfiles(b, winnerOk) ==
  LET wi == IF b.result.winner = b.players[1].id THEN 1 ELSE 2
      li == 3 - wi
      winnerHas == b.players[wi].ipHash # 0
      loserHas == b.players[li].ipHash # 0
  IN [b EXCEPT !.profileWins[wi] = IF winnerHas THEN @ + 1 ELSE @,
               !.profileLosses[li] =
                  IF loserHas /\ (winnerOk \/ ~winnerHas) THEN @ + 1 ELSE @]

\* the awaited snapshot write of the try block or of the catch block succeeded:
\* profile upserts, then the cleanup timer
EndBattleStored(j, winnerOk) ==
  /\ j \in judging /\ j.pc \in {"write", "fallbackWrite"}
  /\ judging' = judging \ {j}
  /\ heap' = [heap EXCEPT ![j.ref] = UpdateProfiles(@, winnerOk)]
  /\ cleanups' = cleanups (+) SetToBag({heap[j.ref].id})
  /\ out' = NoOut
  /\ UNCHANGED <<conn, ipOf, waitingPlayers, waitingSet, botTimeouts, battles,
                 creating, botReplies, lastId, nBots, mongoUri>>

\* the awaited snapshot write of the try block threw: the catch block runs
EndBattleCatch(j, w) ==
  /\ j \in judging /\ j.pc = "write"
  /\ heap' = [heap EXCEPT ![j.ref] =
                Effects([@ EXCEPT !.result = FallbackResult(heap[j.ref], w),
                                  !.ended = @ + 1,
                                  !.writes = @ + 1], TRUE)]
  /\ judging' = (judging \ {j}) \cup {[ref |-> j.ref, pc |-> "fallbackWrite"]}
  /\ out' = NoOut
  /\ UNCHANGED <<conn, ipOf, waitingPlayers, waitingSet, botTimeouts, battles,
                 creating, botReplies, cleanups, lastId, nBots, mongoUri>>

\* the awaited snapshot write of the catch block threw: endBattle rejects
EndBattleReject(j) ==
  /\ j \in judging /\ j.pc = "fallbackWrite"
  /\ judging' = judging \ {j}
  /\ out' = NoOut
  /\ UNCHANGED <<conn, ipOf, waitingPlayers, waitingSet, botTimeouts, battles, heap,
                 creating, botReplies, cleanups, lastId, nBots, mongoUri>>

\* a cleanup timer fires: battles.delete(battleId)
CleanupFire(id) ==
  /\ BagIn(id, cleanups)
  /\ cleanups' = cleanups (-) SetToBag({id})
  /\ battles' = Delete(battles, id)
  /\ out' = NoOut
  /\ UNCHANGED <<conn, ipOf, waitingPlayers, waitingSet, botTimeouts, heap,
                 creating, judging, botReplies, lastId, nBots, mongoUri>>

\* socket.on('leaveBattle')
LeaveBattle(s, id) ==
  /\ conn[s] = "live"
  /\ Has(battles, id)
  /\ LET ref == RefOf(id)
         b == heap[ref]
         playerIndex == PlayerIndexOf(b, s)
     IN IF playerIndex # 0 /\ b.status = "active"
        THEN IF RemainingIndex(b, s) # 0
             THEN /\ heap' = [heap EXCEPT ![ref] =
                                     endBattleEarly(b, b.players[RemainingIndex(b, s)])]
                  /\ cleanups' = cleanups (+) SetToBag({id})
             ELSE UNCHANGED <<heap, cleanups>>
        ELSE /\ heap' = [heap EXCEPT ![ref] = DropSpectator(b, s)]
             /\ UNCHANGED cleanups
  /\ out' = NoOut
  /\ UNCHANGED <<conn, ipOf, waitingPlayers, waitingSet, botTimeouts, battles,
                 creating, judging, botReplies, lastId, nBots, mongoUri>>

\* ------------------------------------------------------- lines and the bot
\* mutant: every line is tagged with the first round
LineFirstRound(playerId, username, round) ==
  [playerId |-> playerId, username |-> username, round |-> 1]

Line(playerId, username, round) ==
  [playerId |-> playerId, username |-> username, round |-> round]

\* socket.on('sendMessage') on an active battle of the directory
SendMessage(s, id, username) ==
  /\ conn[s] = "live"
  /\ Has(battles, id)
  /\ LET ref == RefOf(id)
         b == heap[ref]
         pushed == Effects([b EXCEPT !.messages =
                                    Append(@, Line(s, username, b.currentRound))], TRUE)
         hasBot == \E i \in 1..2 : b.players[i].id = b.botPlayerId
     IN /\ b.status = "active"
        /\ heap' = [heap EXCEPT ![ref] =
                      IF b.isBotBattle /\ hasBot /\ username # BotOf(b).username
                      THEN ScheduleBot(pushed) ELSE pushed]
  /\ out' = NoOut
  /\ UNCHANGED <<conn, ipOf, waitingPlayers, waitingSet, botTimeouts, battles,
                 creating, judging, botReplies, cleanups, lastId, nBots, mongoUri>>

\* socket.on('sendMessage') when the battle is missing or not active: return
SendMessageIgnored(s, id) ==
  /\ conn[s] = "live"
  /\ IF Has(battles, id) THEN heap[RefOf(id)].status # "active" ELSE TRUE
  /\ out' = NoOut
  /\ UNCHANGED <<conn, ipOf, waitingPlayers, waitingSet, botTimeouts, battles, heap,
                 creating, judging, botReplies, cleanups, lastId, nBots, mongoUri>>

\* bot.username === m.username && m.round === current.currentRound for some m
AlreadySpoke(current, botName) ==
  \E i \in 1..Len(current.messages) :
    current.messages[i].username = botName
    /\ current.messages[i].round = current.currentRound

\* the bot-reply timer armed on object ref fires; the callback runs up to the
\* await of generateBotRoast
BotTimerFire(ref) ==
  /\ ref \in DOMAIN heap
  /\ heap[ref].botTimerLive
  /\ heap' = [heap EXCEPT ![ref].botTimerLive = FALSE]
  /\ LET id == heap[ref].id
         bot == BotOf(heap[ref])
     IN IF ~Has(battles, id) \/ heap[RefOf(id)].status # "active"
           \/ AlreadySpoke(heap[RefOf(id)], bot.username)
        THEN UNCHANGED botReplies
        ELSE /\ botReplies' = botReplies (+)
                  SetToBag({[cur |-> RefOf(id), botId |-> bot.id, name |-> bot.username]})
  /\ out' = NoOut
  /\ UNCHANGED <<conn, ipOf, waitingPlayers, waitingSet, botTimeouts, battles,
                 creating, judging, cleanups, lastId, nBots, mongoUri>>

\* generateBotRoast returned (a generated line or the local fallback line): the
\* callback appends to the object it fetched before the await
BotReplyDone(r) ==
  /\ BagIn(r, botReplies)
  /\ botReplies' = botReplies (-) SetToBag({r})
  /\ heap' = [heap EXCEPT ![r.cur] =
                Effects([@ EXCEPT !.messages =
                           Append(@, Line(r.botId, r.name, heap[r.cur].currentRound))],
                        TRUE)]
  /\ out' = NoOut
  /\ UNCHANGED <<conn, ipOf, waitingPlayers, waitingSet, botTimeouts, battles,
                 creating, judging, cleanups, lastId, nBots, mongoUri>>

\* the 60s fallback timer of socket s fires: tryAssignBotToWaitingPlayer(s)
FallbackTimerFire(s, name) ==
  /\ s \in botTimeouts
  /\ botTimeouts' = botTimeouts \ {s}
  /\ LET index == FirstIndex({i \in 1..Len(waitingPlayers) : waitingPlayers[i].socketId = s})
     IN IF s \notin waitingSet
        THEN UNCHANGED <<waitingPlayers, waitingSet, creating, lastId, nBots>>
        ELSE IF index = 0
        THEN /\ waitingSet' = waitingSet \ {s}
             /\ UNCHANGED <<waitingPlayers, creating, lastId, nBots>>
        ELSE /\ waitingPlayers' = RemoveAt(waitingPlayers, index)
             /\ waitingSet' = waitingSet \ {s}
             /\ IF s \notin Live
                THEN UNCHANGED <<creating, lastId, nBots>>
                ELSE \E id \in BattleIds :
                       /\ ClockValue(id)
                       /\ creating' = creating (+)
                            StartCreates(<<<<waitingPlayers[index],
                                             makeBotPlayer(nBots + 1, name)>>>>, id)
                       /\ lastId' = id
                       /\ nBots' = nBots + 1
  /\ out' = NoOut
  /\ UNCHANGED <<conn, ipOf, battles, heap, judging, botReplies, cleanups, mongoUri>>

\* ------------------------------------------------- spectators and reactions
\* mutant: the admission test compares spectators.length > 20
JoinSpectatorOffByOne(s, id) ==
  /\ conn[s] = "live"
  /\ Has(battles, id)
  /\ LET ref == RefOf(id)
         b == heap[ref]
     IN IF b.status = "ended"
        THEN /\ out' = "battleState"
             /\ UNCHANGED heap
        ELSE IF Len(b.spectators) > MaxSpectators
        THEN /\ out' = "spectatorLimitReached"
             /\ UNCHANGED heap
        ELSE IF (\E k \in 1..Len(b.spectators) : b.spectators[k] = s)
                \/ (\E i \in 1..Len(b.players) : b.players[i].socketId = s)
        THEN /\ out' = "alreadyInBattle"
             /\ UNCHANGED heap
        ELSE /\ heap' = [heap EXCEPT ![ref].spectators = Append(@, s)]
             /\ out' = "battleState"
  /\ UNCHANGED <<conn, ipOf, waitingPlayers, waitingSet, botTimeouts, battles,
                 creating, judging, botReplies, cleanups, lastId, nBots, mongoUri>>

\* socket.on('joinSpectator') for a battle of the directory
JoinSpectator(s, id) ==
  /\ conn[s] = "live"
  /\ Has(battles, id)
  /\ LET ref == RefOf(id)
         b == heap[ref]
     IN IF b.status = "ended"
        THEN /\ out' = "battleState"
             /\ UNCHANGED heap
        ELSE IF Len(b.spectators) >= MaxSpectators
        THEN /\ out' = "spectatorLimitReached"
             /\ UNCHANGED heap
        ELSE IF (\E k \in 1..Len(b.spectators) : b.spectators[k] = s)
                \/ (\E i \in 1..Len(b.players) : b.players[i].socketId = s)
        THEN /\ out' = "alreadyInBattle"
             /\ UNCHANGED heap
        ELSE /\ heap' = [heap EXCEPT ![ref].spectators = Append(@, s)]
             /\ out' = "battleState"
  /\ UNCHANGED <<conn, ipOf, waitingPlayers, waitingSet, botTimeouts, battles,
                 creating, judging, botReplies, cleanups, lastId, nBots, mongoUri>>

\* socket.on('joinSpectator') for an id that is not in the directory: the
\* persisted battle, if the store has one, or 'battleNotFound'; the part after
\* the await of findOne only emits to the socket
JoinSpectatorMissing(s, id) ==
  /\ conn[s] = "live"
  /\ ~Has(battles, id)
  /\ out' \in IF mongoUri THEN {"battleState", "battleNotFound"} ELSE {"battleNotFound"}
  /\ UNCHANGED <<conn, ipOf, waitingPlayers, waitingSet, botTimeouts, battles, heap,
                 creating, judging, botReplies, cleanups, lastId, nBots, mongoUri>>

\* the emojis a client may send: one of allowedEmojis and one that is not
Emojis == {"fire", "poo"}

allowedEmojis == {"fire"}

\* Array.prototype.slice(-n): the last n elements
LastN(seq, n) == IF Len(seq) <= n THEN seq ELSE SubSeq(seq, Len(seq) - n + 1, Len(seq))

\* mutant: the feed is not trimmed
PushReactionNoTrim(feed, timestamp) == Append(feed, timestamp)

\* battle.reactions.push(reaction), then the trim to the most recent 50
PushReaction(feed, timestamp) ==
  IF Len(Append(feed, timestamp)) > MaxReactions
  THEN LastN(Append(feed, timestamp), MaxReactions)
  ELSE Append(feed, timestamp)

\* mutant: sendReaction does not look the sender up among the spectators
SendReactionAnyone(s, id, emoji, timestamp) ==
  /\ conn[s] = "live"
  /\ IF ~Has(battles, id)
     THEN /\ out' = NoOut
          /\ UNCHANGED heap
     ELSE LET ref == RefOf(id)
              b == heap[ref]
          IN /\ timestamp \in {b.clock, b.clock + 1} \ {0}
             /\ IF b.status # "active" \/ emoji \notin allowedEmojis
                THEN /\ out' = NoOut
                     /\ UNCHANGED heap
                ELSE /\ heap' = [heap EXCEPT ![ref] =
                                   [b EXCEPT !.reactions = PushReaction(@, timestamp),
                                             !.expiries = Append(@, timestamp),
                                             !.clock = timestamp]]
                     /\ out' = "newReaction"
  /\ UNCHANGED <<conn, ipOf, waitingPlayers, waitingSet, botTimeouts, battles,
                 creating, judging, botReplies, cleanups, lastId, nBots, mongoUri>>

\* socket.on('sendReaction'); timestamp is Date.now(), the millisecond of the
\* battle's previous reaction or a later one
SendReaction(s, id, emoji, timestamp) ==
  /\ conn[s] = "live"
  /\ IF ~Has(battles, id)
     THEN /\ out' = NoOut
          /\ UNCHANGED heap
     ELSE LET ref == RefOf(id)
              b == heap[ref]
          IN /\ timestamp \in {b.clock, b.clock + 1} \ {0}
             /\ IF b.status # "active"
                   \/ ~(\E k \in 1..Len(b.spectators) : b.spectators[k] = s)
                   \/ emoji \notin allowedEmojis
                THEN /\ out' = NoOut
                     /\ UNCHANGED heap
                ELSE /\ heap' = [heap EXCEPT ![ref] =
                                   [b EXCEPT !.reactions = PushReaction(@, timestamp),
                                             !.expiries = Append(@, timestamp),
                                             !.clock = timestamp]]
                     /\ out' = "newReaction"
  /\ UNCHANGED <<conn, ipOf, waitingPlayers, waitingSet, botTimeouts, battles,
                 creating, judging, botReplies, cleanups, lastId, nBots, mongoUri>>

\* mutant: the expiry callback only broadcasts
ReactionExpireKeeps(ref) ==
  /\ ref \in DOMAIN heap
  /\ heap[ref].expiries # <<>>
  /\ heap' = [heap EXCEPT ![ref] =
                [@ EXCEPT !.expiries = Tail(@)]]
  /\ out' = "reactionRemoved"
  /\ UNCHANGED <<conn, ipOf, waitingPlayers, waitingSet, botTimeouts, battles,
                 creating, judging, botReplies, cleanups, lastId, nBots, mongoUri>>

\* the oldest armed 3s expiry timer of object ref fires (timers of one delay
\* fire in the order they were armed); the callback holds the object
ReactionExpire(ref) ==
  /\ ref \in DOMAIN heap
  /\ heap[ref].expiries # <<>>
  /\ heap' = [heap EXCEPT ![ref] =
                [@ EXCEPT !.reactions = SelectSeq(@, LAMBDA t : t # Head(heap[ref].expiries)),
                          !.expiries = Tail(@)]]
  /\ out' = "reactionRemoved"
  /\ UNCHANGED <<conn, ipOf, waitingPlayers, waitingSet, botTimeouts, battles,
                 creating, judging, botReplies, cleanups, lastId, nBots, mongoUri>>

\* ------------------------------------------------------------ specification
\* bounds on the environment: room for one more line in the transcript of id,
\* for one more suspended bot reply
RoomForLine(ref, maxM) == Len(heap[ref].messages) < maxM

RoomInFlight == BagCardinality(botReplies) < MaxInFlight

\* connections, matchmaking, creation, forfeit by disconnect and cleanup
Matchmaking(maxS, maxB, users, names) ==
  \/ \E s \in 1..maxS : Connect(s)
  \/ \E s \in Sockets : FindMatchReconnect(s)
  \/ \E s \in Sockets : FindMatchDuplicate(s)
  \/ \E s \in Sockets, u \in users : Load < maxB /\ FindMatchEnqueue(s, u)
  \/ \E s \in Sockets : Disconnect(s)
  \/ \E c \in BagToSet(creating) : CreateBattleResume(c)
  \/ \E s \in Sockets, n \in names : FallbackTimerFire(s, n)
  \/ \E id \in BattleIds : CleanupFire(id)

\* leave, rounds, normal end, lines and bot replies
Rounds(maxM, users) ==
  \/ \E s \in Sockets, id \in BattleIds : LeaveBattle(s, id)
  \/ \E ref \in DOMAIN heap : RoundTimerFire(ref)
  \/ \E j \in judging, jd \in Judgments : EndBattleJudged(j, jd)
  \/ \E j \in judging, ok \in BOOLEAN : EndBattleStored(j, ok)
  \/ \E j \in judging, w \in 1..2 : EndBattleCatch(j, w)
  \/ \E j \in judging : EndBattleReject(j)
  \/ \E s \in Sockets, id \in BattleIds, u \in users :
       Has(battles, id) /\ RoomForLine(RefOf(id), maxM) /\ SendMessage(s, id, u)
  \/ \E ref \in DOMAIN heap : RoomInFlight /\ BotTimerFire(ref)
  \/ \E r \in BagToSet(botReplies) : RoomForLine(r.cur, maxM) /\ BotReplyDone(r)

\* the whole orchestrator with one battle
Next ==
  \/ Matchmaking(LifeSock, LifeBattles, {"ann"}, {"RoboRival"})
  \/ Rounds(LifeMsgs, {"ann"})

Spec == Init /\ [][Next]_vars

\* matchmaking with several battles in flight
NextQueue == Matchmaking(NSock, MaxBattles, {"ann"}, {"RoboRival"})

InitQueue == Init /\ mongoUri

SpecQueue == InitQueue /\ [][NextQueue]_vars

\* the one-battle specification in which every armed timer fires and every
\* suspended call resumes (the clients are under no obligation)
Resumes ==
  \/ \E j \in judging, jd \in Judgments : EndBattleJudged(j, jd)
  \/ \E j \in judging, ok \in BOOLEAN : EndBattleStored(j, ok)
  \/ \E j \in judging, w \in 1..2 : EndBattleCatch(j, w)
  \/ \E j \in judging : EndBattleReject(j)

SpecFair ==
  /\ Spec
  /\ WF_vars(\E c \in BagToSet(creating) : CreateBattleResume(c))
  /\ WF_vars(\E s \in Sockets : FallbackTimerFire(s, "RoboRival"))
  /\ WF_vars(\E ref \in DOMAIN heap : RoundTimerFire(ref))
  /\ WF_vars(Resumes)
  /\ WF_vars(\E id \in BattleIds : CleanupFire(id))

\* two connections that are paired within the fallback delay, their battle's
\* rounds and its end; every armed timer fires, every suspended call resumes
NextDuel ==
  \/ \E s \in 1..LifeSock : Connect(s)
  \/ \E s \in Sockets : FindMatchReconnect(s)
  \/ \E s \in Sockets : Load < MaxBattles /\ FindMatchEnqueue(s, "ann")
  \/ \E s \in Sockets : Disconnect(s)
  \/ \E c \in BagToSet(creating) : CreateBattleResume(c)
  \/ \E ref \in DOMAIN heap : RoundTimerFire(ref)
  \/ Resumes
  \/ \E id \in BattleIds : CleanupFire(id)

SpecDuel ==
  /\ Init
  /\ [][NextDuel]_vars
  /\ WF_vars(\E c \in BagToSet(creating) : CreateBattleResume(c))
  /\ WF_vars(\E ref \in DOMAIN heap : RoundTimerFire(ref))
  /\ WF_vars(Resumes)
  /\ WF_vars(\E id \in BattleIds : CleanupFire(id))

\* matchmaking in which topic generation may fail
NextTopic ==
  \/ \E s \in 1..LifeSock : Connect(s)
  \/ \E s \in Sockets : FindMatchReconnect(s)
  \/ \E s \in Sockets : Load < MaxBattles /\ FindMatchEnqueue(s, "ann")
  \/ \E s \in Sockets : Disconnect(s)
  \/ \E c \in BagToSet(creating), topic \in Topics : CreateBattleTopic(c, topic)
  \/ \E s \in Sockets : FallbackTimerFire(s, "RoboRival")
  \/ \E id \in BattleIds : CleanupFire(id)

SpecTopic == Init /\ [][NextTopic]_vars

\* the spectators of the battle id are the connections above Movers up to s - 1:
\* connections that only watch join in the order in which they connected
JoinsInOrder(s, id) ==
  \/ s <= Movers
  \/ /\ Has(battles, id)
     /\ \A t \in (Movers + 1)..(s - 1) :
          \E k \in 1..Len(heap[RefOf(id)].spectators) : heap[RefOf(id)].spectators[k] = t

\* a connection that only watches connects once the one before it watches
ConnectsInOrder(s) ==
  \/ s <= Movers + 1
  \/ \E r \in DOMAIN heap :
       \E k \in 1..Len(heap[r].spectators) : heap[r].spectators[k] = s - 1

\* s is the spectator of the battle id that joined last
JoinedLast(s, id) ==
  /\ Has(battles, id)
  /\ heap[RefOf(id)].spectators # <<>>
  /\ heap[RefOf(id)].spectators[Len(heap[RefOf(id)].spectators)] = s

\* one battle and its spectators: all connections come from one origin, the
\* first Movers of them queue and disconnect, the others only watch, and of
\* these the one that joined last may leave
NextViewers ==
  \/ \E s \in 1..NConn : ConnectsInOrder(s) /\ Connect(s) /\ ipOf'[s] = 1
  \/ \E s \in 1..Movers : FindMatchReconnect(s)
  \/ \E s \in 1..Movers : Load < LifeBattles /\ FindMatchEnqueue(s, "ann")
  \/ \E s \in 1..Movers : Disconnect(s)
  \/ \E c \in BagToSet(creating) : CreateBattleResume(c)
  \/ \E s \in 1..Movers : FallbackTimerFire(s, "RoboRival")
  \/ \E id \in BattleIds : CleanupFire(id)
  \/ \E s \in Sockets, id \in BattleIds :
       (s <= Movers \/ JoinedLast(s, id)) /\ LeaveBattle(s, id)
  \/ \E s \in Sockets, id \in BattleIds : JoinsInOrder(s, id) /\ JoinSpectator(s, id)

SpecViewers == InitQueue /\ [][NextViewers]_vars

\* a battle and those who may watch it: matchmaking, joinSpectator, leaveBattle
NextWatch ==
  \/ Matchmaking(LifeSock, LifeBattles, {"ann"}, {"RoboRival"})
  \/ \E s \in 1..LifeSock, id \in BattleIds : JoinSpectator(s, id)
  \/ \E s \in 1..LifeSock, id \in BattleIds : JoinSpectatorMissing(s, id)
  \/ \E s \in 1..LifeSock, id \in BattleIds : LeaveBattle(s, id)

SpecWatch == Init /\ [][NextWatch]_vars

\* the next reaction of the battle id falls in the millisecond of the previous
\* one (only while at most TieWindow expiry timers are armed) or in the next
StampAllowed(id, timestamp) ==
  /\ Has(battles, id)
  /\ timestamp \in 1..MaxStamp
  /\ timestamp \in {heap[RefOf(id)].clock, heap[RefOf(id)].clock + 1}
  /\ timestamp = heap[RefOf(id)].clock => Len(heap[RefOf(id)].expiries) <= TieWindow

\* one battle of the first connection against a bot, the second connection as
\* its spectator, the reaction feed and its expiry timers, which all fire
NextFeed ==
  \/ \E s \in 1..LifeSock : Connect(s) /\ ipOf'[s] = s
  \/ Load < LifeBattles /\ FindMatchEnqueue(1, "ann")
  \/ \E c \in BagToSet(creating) : CreateBattleResume(c)
  \/ FallbackTimerFire(1, "RoboRival")
  \/ \E id \in BattleIds : CleanupFire(id)
  \/ \E s \in 1..LifeSock, id \in BattleIds : LeaveBattle(s, id)
  \/ \E s \in 1..LifeSock, id \in BattleIds : JoinSpectator(s, id)
  \/ \E s \in 1..LifeSock, id \in BattleIds, emoji \in Emojis, d \in 0..1 :
       /\ Has(battles, id)
       /\ StampAllowed(id, heap[RefOf(id)].clock + d)
       /\ SendReaction(s, id, emoji, heap[RefOf(id)].clock + d)
  \/ \E s \in 1..LifeSock, id \in BattleIds, emoji \in Emojis :
       ~Has(battles, id) /\ SendReaction(s, id, emoji, 1)
  \/ \E ref \in DOMAIN heap : ReactionExpire(ref)

SpecFeed ==
  /\ InitQueue
  /\ [][NextFeed]_vars
  /\ \A ref \in 1..LifeBattles : WF_vars(ReactionExpire(ref))

\* one connection and its battle against a bot, with transcripts of up to
\* MaxLines lines sent under either display name
NextLines ==
  \/ Matchmaking(1, LifeBattles, {"ann"}, {"RoboRival"})
  \/ Rounds(MaxLines, UserNames)

SpecLines == InitQueue /\ [][NextLines]_vars

\* matchmaking of two connections, and leaveBattle
NextForfeit ==
  \/ Matchmaking(LifeSock, MaxBattles, {"ann"}, {"RoboRival"})
  \/ \E s \in Sockets, id \in BattleIds : LeaveBattle(s, id)

SpecForfeit == InitQueue /\ [][NextForfeit]_vars

\* matchmaking with the whole persona pool; every armed fallback timer fires
NextFallback == Matchmaking(LifeSock, MaxBattles, {"ann"}, BOT_NAMES)

SpecFallback ==
  /\ InitQueue
  /\ [][NextFallback]_vars
  /\ \A s \in 1..LifeSock : WF_vars(\E n \in BOT_NAMES : FallbackTimerFire(s, n))

\* one connection and its battle against a bot, as in Next, and the messages
\* and reactions the connection sends to a battle that has ended or is gone
NextStale ==
  \/ Next
  \/ \E s \in 1..LifeSock, id \in BattleIds : SendMessageIgnored(s, id)
  \/ \E s \in 1..LifeSock, id \in BattleIds, emoji \in Emojis :
       /\ IF Has(battles, id) THEN heap[RefOf(id)].status = "ended" ELSE TRUE
       /\ SendReaction(s, id, emoji, IF Has(battles, id) THEN heap[RefOf(id)].clock + 1 ELSE 1)

SpecStale == InitQueue /\ [][NextStale]_vars

\* ------------------------------------------------------------------ claims
Objects == DOMAIN heap

\* C1: over its whole life a session produces at most one 'battleEnded'
\* broadcast and at most one final-snapshot write, whatever the interleaving of
\* round timers, leaves and disconnects.
C1_OneEndBroadcastOneWrite ==
  \A r \in Objects : heap[r].ended <= 1 /\ heap[r].writes <= 1

\* C2: once a session's status is 'ended' no step appends a Line to its
\* transcript, neither a sendMessage nor a bot reply resuming from its oracle call.
C2_NoLineAfterEnd ==
  [][\A r \in Objects :
       heap[r].status = "ended" => heap'[r].messages = heap[r].messages]_vars

\* C3: in every reachable state the side map of every session maps exactly its
\* two participants, the first to option1 and the second to option2.
C3_SidesBijective ==
  \A r \in Objects :
    LET b == heap[r] IN
      /\ Len(b.players) = 2
      /\ b.players[1].id # b.players[2].id
      /\ DOMAIN b.playerSides = {b.players[1].id, b.players[2].id}
      /\ b.playerSides[b.players[1].id] = "option1"
      /\ b.playerSides[b.players[2].id] = "option2"

\* a session that was re-bound by a reconnection, advanced a round and ended
C3_Witness ==
  \E r \in Objects :
    /\ heap[r].status = "ended"
    /\ heap[r].currentRound > 1
    /\ \E i \in 1..2 : ~heap[r].players[i].isBot
                       /\ heap[r].players[i].socketId # heap[r].players[i].id

\* C4: a session's currentRound starts at 1, stays within 1..maxRounds, and a
\* step changes it only by +1, only while the session is active and only when a
\* round timer fires.
C4_RoundMonotone ==
  /\ [](\A r \in Objects : heap[r].currentRound \in 1..MaxRounds)
  /\ [][\A r \in DOMAIN heap' :
          IF r \in Objects
          THEN \/ heap'[r].currentRound = heap[r].currentRound
               \/ /\ heap'[r].currentRound = heap[r].currentRound + 1
                  /\ heap[r].status = "active"
                  /\ \E ref \in Objects : RoundTimerFire(ref)
          ELSE heap'[r].currentRound = 1]_vars

\* a session that went through all its rounds and was handed to the judge
C4_Witness ==
  \E r \in Objects : heap[r].currentRound = MaxRounds /\ heap[r].judged = 1

\* C5: 'ended' is absorbing: no step takes a session from 'ended' back to
\* 'active'; a session whose end was broadcast or whose Result is stored is ended.
C5_EndedAbsorbing ==
  /\ [](\A r \in Objects :
          /\ heap[r].status \in {"active", "ended"}
          /\ (heap[r].ended > 0 \/ heap[r].result.kind # "none")
               => heap[r].status = "ended")
  /\ [][\A r \in Objects :
          heap[r].status = "ended" => heap'[r].status = "ended"]_vars

\* an ended session on which a findMatch of a participant's origin, a stale
\* bot reply or a later disconnect has since acted
C5_Witness ==
  \E r \in Objects :
    /\ heap[r].status = "ended"
    /\ heap[r].result.kind = "forfeit"
    /\ ~InDirectory(r)
    /\ heap[r].ended > 1

\* a step that handles a findMatch event of socket s
FindMatchStep(s) ==
  \/ FindMatchReconnect(s)
  \/ FindMatchDuplicate(s)
  \/ \E u \in UserNames : FindMatchEnqueue(s, u)

\* the battles of the directory that are active and have a participant with
\* the origin token ip
ActiveWithOrigin(ip) ==
  {k \in 1..Len(battles) :
     /\ heap[battles[k].ref].status = "active"
     /\ \E i \in 1..2 : heap[battles[k].ref].players[i].ipHash = ip}

Waiting == {waitingPlayers[i].socketId : i \in 1..Len(waitingPlayers)}

\* C6: a findMatch from a connection whose origin token is that of a participant
\* of an active session re-binds such a participant of such a session to the
\* connection, answers 'battleState', and leaves the waiting list, the waiting
\* set and the fallback timers as they were.
C6_ReconnectResumes ==
  [][\A s \in Sockets :
       (conn[s] = "live" /\ ActiveWithOrigin(ipOf[s]) # {} /\ FindMatchStep(s))
       => /\ \E k \in ActiveWithOrigin(ipOf[s]) : \E i \in 1..2 :
               /\ heap[battles[k].ref].players[i].ipHash = ipOf[s]
               /\ heap'[battles[k].ref].players[i].socketId = s
               /\ heap'[battles[k].ref].players[i].id
                    = heap[battles[k].ref].players[i].id
          /\ out' = "battleState"
          /\ UNCHANGED <<waitingPlayers, waitingSet, botTimeouts, creating, battles>>]_vars

\* a new connection took over a participant of an active session: the
\* participant's handle is a live socket other than the one it was created with
C6_Witness ==
  /\ out = "battleState"
  /\ \E k \in 1..Len(battles) : \E i \in 1..2 :
       LET p == heap[battles[k].ref].players[i] IN
         /\ heap[battles[k].ref].status = "active"
         /\ ~p.isBot /\ p.socketId # p.id
         /\ conn[p.socketId] = "live" /\ conn[p.id] = "dead"
         /\ p.socketId \notin waitingSet /\ p.socketId \notin botTimeouts

\* C7: an origin token belongs to a participant of at most one active session
\* of the directory.
C7_OneActiveSessionPerOrigin ==
  \A ip \in IpHashes : Cardinality(ActiveWithOrigin(ip)) <= 1

\* C10: a fallback timer is armed only for connections that are waiting.
C10_NoTimerUnlessWaiting == botTimeouts \subseteq Waiting

\* C8: the waiting list never holds more than one entry; an enqueue that finds a
\* live connection waiting pairs the two in the same step: both leave the
\* waiting list, the waiting set and the fallback timers, and exactly one
\* session creation, for these two, is started.
C8_PairingDrainsQueue ==
  /\ [](Len(waitingPlayers) <= 1)
  /\ [][\A s \in Sockets, u \in UserNames :
          (/\ waitingPlayers # <<>>
           /\ Head(waitingPlayers).socketId \in Live \ {s}
           /\ FindMatchEnqueue(s, u))
          => /\ waitingPlayers' = <<>>
             /\ waitingSet' \cap {s, Head(waitingPlayers).socketId} = {}
             /\ botTimeouts' \cap {s, Head(waitingPlayers).socketId} = {}
             /\ \E id \in BattleIds :
                  creating' = creating (+) SetToBag({[id |-> id,
                                p1 |-> Head(waitingPlayers),
                                p2 |-> Player(s, u, s, ipOf[s], FALSE)]})]_vars

\* two connections were paired: a creation for two humans is pending, the queue
\* is empty and neither is in the waiting set
C8_Witness ==
  /\ waitingPlayers = <<>>
  /\ \E c \in BagToSet(creating) :
       /\ ~c.p1.isBot /\ ~c.p2.isBot /\ c.p1.socketId # c.p2.socketId
       /\ {c.p1.socketId, c.p2.socketId} \cap waitingSet = {}
       /\ {c.p1.socketId, c.p2.socketId} \subseteq Live

\* C9: when the fallback timer of a live waiting connection fires, the
\* connection leaves the waiting list and set and one session creation is
\* started for it and a synthetic participant named from BOT_NAMES; no session
\* has two synthetic participants; every waiting connection (of the LifeSock
\* connections that exist) eventually leaves the waiting list.
C9_FallbackGivesBot ==
  /\ [][\A s \in Sockets :
          (/\ s \in botTimeouts /\ s \in Live /\ s \in Waiting /\ s \in waitingSet
           /\ \E n \in BOT_NAMES : FallbackTimerFire(s, n))
          => /\ s \notin {waitingPlayers'[i].socketId : i \in 1..Len(waitingPlayers')}
             /\ s \notin waitingSet'
             /\ \E c \in BagToSet(creating') :
                  /\ creating' = creating (+) SetToBag({c})
                  /\ c.p1.socketId = s /\ ~c.p1.isBot
                  /\ c.p2.isBot /\ c.p2.username \in BOT_NAMES]_vars
  /\ [](\A r \in Objects :
          /\ \E i \in 1..2 : ~heap[r].players[i].isBot
          /\ \A i \in 1..2 : heap[r].players[i].isBot
                             => heap[r].players[i].username \in BOT_NAMES)
  /\ \A s \in 1..LifeSock : (s \in Waiting) ~> (s \notin Waiting)

\* a session made by the fallback: a live human and a bot from the pool
C9_Witness ==
  \E r \in Objects :
    /\ ~heap[r].players[1].isBot /\ heap[r].players[1].socketId \in Live
    /\ heap[r].players[2].isBot /\ heap[r].players[2].username \in BOT_NAMES
    /\ heap[r].isBotBattle /\ heap[r].botPlayerId = heap[r].players[2].id
    /\ heap[r].status = "active"

\* the directory's entries as heap references
Listed == {battles[k].ref : k \in 1..Len(battles)}

\* C11: when a connection bound to a player of an active session of the
\* directory disconnects or sends leaveBattle, in that same step the session
\* becomes 'ended', its Result names a participant bound to another connection
\* as winner with total 30 and gives the other participant 0, and the judging
\* oracle is not invoked.
C11_ForfeitEndsWithMaxScore ==
  [][\A s \in Sockets : \A r \in Listed :
       (/\ heap[r].status = "active"
        /\ \E i \in 1..2 : heap[r].players[i].socketId = s
        /\ Disconnect(s) \/ LeaveBattle(s, heap[r].id))
       => /\ heap'[r].status = "ended"
          /\ heap'[r].judged = heap[r].judged
          /\ \E w \in 1..2 :
               /\ heap[r].players[w].socketId # s
               /\ heap'[r].result = [kind |-> "forfeit",
                                     winner |-> heap[r].players[w].id,
                                     s1 |-> IF w = 1 THEN 30 ELSE 0,
                                     s2 |-> IF w = 2 THEN 30 ELSE 0]]_vars

\* C12: an ended session of the directory leaves the directory only when a
\* cleanup timer fires; no other event (a disconnect in particular) removes it.
C12_EndedStaysForGrace ==
  [][\A r \in Listed :
       (heap[r].status = "ended" /\ r \notin {battles'[k].ref : k \in 1..Len(battles')})
       => \E id \in BattleIds : CleanupFire(id)]_vars

\* C13: every session of the directory that is 'ended' is eventually removed
\* from the directory.
C13_EndedEventuallyPurged ==
  \A r \in 1..MaxBattles :
    (r \in Listed /\ heap[r].status = "ended") ~> (r \notin Listed)

\* the Result of b names one of b's two participants as winner
HasVerdict(b) ==
  /\ b.result.kind # "none"
  /\ \E i \in 1..2 : b.result.winner = b.players[i].id

\* C14: every session that is created eventually is 'ended' and holds a Result
\* whose winner is one of its two participants.
C14_EveryBattleGetsVerdict ==
  \A r \in 1..MaxBattles :
    (r \in DOMAIN heap)
      ~> (r \in DOMAIN heap /\ heap[r].status = "ended" /\ HasVerdict(heap[r]))

\* a step in which an awaited write to the durable store fails
StoreWriteFails ==
  \E j \in judging : (\E w \in 1..2 : EndBattleCatch(j, w)) \/ EndBattleReject(j)

\* C15: a step in which a durable-store write fails changes no session's
\* status, transcript or Result and broadcasts no further 'battleEnded'.
C15_StoreFailureInvisible ==
  [][StoreWriteFails
     => \A r \in DOMAIN heap :
          /\ heap'[r].status = heap[r].status
          /\ heap'[r].messages = heap[r].messages
          /\ heap'[r].result = heap[r].result
          /\ heap'[r].ended = heap[r].ended]_vars

\* C16: when topic generation fails, createBattle adds no session to the
\* directory, broadcasts no 'battleStarted' and arms no round timer.
C16_TopicFailureAborts ==
  [][\A c \in BagToSet(creating) :
       CreateBattleTopic(c, "curated")
       => /\ battles' = battles
          /\ heap' = heap]_vars

\* the connections in the spectator list of b
Watching(b) == {b.spectators[k] : k \in 1..Len(b.spectators)}

\* C17 as stated: no session has more than 20 spectators, and a joinSpectator
\* on a session of the directory that holds 20 spectators emits
\* 'spectatorLimitReached' and leaves the spectator list unchanged.
C17_FullRejects ==
  /\ [](\A r \in Objects : Len(heap[r].spectators) <= MaxSpectators)
  /\ [][\A s \in Sockets, id \in BattleIds :
          (/\ Has(battles, id)
           /\ Len(heap[RefOf(id)].spectators) >= MaxSpectators
           /\ JoinSpectator(s, id))
          => /\ out' = "spectatorLimitReached"
             /\ heap'[RefOf(id)].spectators = heap[RefOf(id)].spectators]_vars

\* C17 amended: no session has more than 20 spectators; a joinSpectator on an
\* active session that holds 20 spectators emits 'spectatorLimitReached', one
\* on an ended session emits its final state, and both leave the spectator
\* list unchanged.
C17_FullRejectsWhileActive ==
  /\ [](\A r \in Objects : Len(heap[r].spectators) <= MaxSpectators)
  /\ [][\A s \in Sockets, id \in BattleIds :
          (/\ Has(battles, id)
           /\ Len(heap[RefOf(id)].spectators) >= MaxSpectators
           /\ JoinSpectator(s, id))
          => /\ out' = IF heap[RefOf(id)].status = "active"
                       THEN "spectatorLimitReached" ELSE "battleState"
             /\ heap'[RefOf(id)].spectators = heap[RefOf(id)].spectators]_vars

\* an active session holds 20 spectators and the last join was rejected as full
C17_Witness ==
  /\ out = "spectatorLimitReached"
  /\ \E r \in Listed : heap[r].status = "active"
                       /\ Cardinality(Watching(heap[r])) = MaxSpectators

\* C18: no connection is twice in a session's spectator list, and no
\* connection is bound to a player of a session and in its spectator list.
C18_SpectatorsDistinctFromPlayers ==
  \A r \in Objects :
    /\ Cardinality(Watching(heap[r])) = Len(heap[r].spectators)
    /\ \A i \in 1..2 : heap[r].players[i].socketId \notin Watching(heap[r])

\* the timestamps in a feed
Stamps(feed) == {feed[k] : k \in 1..Len(feed)}

\* the reaction of connection s with this emoji is accepted by the battle id
Accepted(s, id, emoji) ==
  /\ Has(battles, id)
  /\ heap[RefOf(id)].status = "active"
  /\ s \in Watching(heap[RefOf(id)])
  /\ emoji \in allowedEmojis

\* C19: no feed ever holds more than 50 entries; an accepted reaction is put
\* at the end of the feed, and when the feed already held 50 the oldest entry
\* is dropped, so that the most recent 50 remain.
C19_FeedCapped ==
  /\ [](\A r \in Objects : Len(heap[r].reactions) <= MaxReactions)
  /\ [][\A s \in 1..LifeSock, id \in BattleIds, emoji \in Emojis, d \in 0..1 :
          (/\ Accepted(s, id, emoji)
           /\ SendReaction(s, id, emoji, heap[RefOf(id)].clock + d))
          => heap'[RefOf(id)].reactions =
               IF Len(heap[RefOf(id)].reactions) < MaxReactions
               THEN Append(heap[RefOf(id)].reactions, heap[RefOf(id)].clock + d)
               ELSE Append(Tail(heap[RefOf(id)].reactions),
                           heap[RefOf(id)].clock + d)]_vars

\* a feed of 50 entries from which the oldest reaction was dropped: 51 expiry
\* timers are armed
C19_Witness ==
  \E r \in Objects :
    /\ Len(heap[r].reactions) = MaxReactions
    /\ Len(heap[r].expiries) = MaxReactions + 1
    /\ heap[r].expiries[1] \notin Stamps(heap[r].reactions)

\* C20: when the expiry timer of a reaction fires, the reaction is no longer
\* in the feed of its session and 'reactionRemoved' is broadcast, whether the
\* session is active, ended or purged; every reaction of a feed has its expiry
\* timer still armed; a reaction (of the first or the last millisecond)
\* eventually is out of the feed.
C20_ReactionsExpire ==
  /\ [][\A r \in Objects :
          ReactionExpire(r)
          => /\ Head(heap[r].expiries) \notin Stamps(heap'[r].reactions)
             /\ out' = "reactionRemoved"]_vars
  /\ [](\A r \in Objects : Stamps(heap[r].reactions) \subseteq Stamps(heap[r].expiries))
  /\ \A r \in 1..LifeBattles, t \in {1, MaxStamp} :
       (r \in Objects /\ t \in Stamps(heap[r].reactions))
         ~> (r \in Objects /\ t \notin Stamps(heap[r].reactions))

\* the last expiry timer of a purged session fired and emptied its feed
C20_Witness ==
  /\ out = "reactionRemoved"
  /\ \E r \in Objects :
       /\ r \notin Listed
       /\ heap[r].clock > 0
       /\ heap[r].reactions = <<>>
       /\ heap[r].expiries = <<>>

\* C21: a sendReaction changes the feed, arms an expiry timer and broadcasts
\* 'newReaction' exactly when the session is in the directory and active, the
\* sender is in its spectator list and the emoji is allow-listed; otherwise no
\* session changes and nothing is broadcast.
C21_ReactionOnlyWhenAccepted ==
  [][\A s \in 1..LifeSock, id \in BattleIds, emoji \in Emojis, d \in 0..1 :
       SendReaction(s, id, emoji, IF Has(battles, id) THEN heap[RefOf(id)].clock + d ELSE 1)
       => IF Accepted(s, id, emoji)
          THEN /\ out' = "newReaction"
               /\ heap'[RefOf(id)].expiries =
                    Append(heap[RefOf(id)].expiries, heap[RefOf(id)].clock + d)
               /\ heap'[RefOf(id)].reactions # heap[RefOf(id)].reactions
          ELSE /\ out' # "newReaction"
               /\ heap' = heap]_vars

\* a reaction was accepted on a session on which one that is not a spectator
\* is connected too
C21_Witness ==
  /\ out = "newReaction"
  /\ \E r \in Listed :
       /\ heap[r].status = "active"
       /\ heap[r].reactions # <<>>
       /\ \E s \in Live : s \notin Watching(heap[r])

\* C22: a transcript changes only by the append of one line, whose round is
\* the session's current round in that step; hence the rounds along every
\* transcript never decrease.
C22_TranscriptAppendOnly ==
  /\ [][\A r \in Objects :
          \/ heap'[r].messages = heap[r].messages
          \/ /\ Len(heap'[r].messages) = Len(heap[r].messages) + 1
             /\ SubSeq(heap'[r].messages, 1, Len(heap[r].messages)) = heap[r].messages
             /\ heap'[r].messages[Len(heap'[r].messages)].round = heap[r].currentRound
             /\ heap'[r].currentRound = heap[r].currentRound]_vars
  /\ [](\A r \in Objects :
          \A i, j \in 1..Len(heap[r].messages) :
            i <= j => heap[r].messages[i].round <= heap[r].messages[j].round)

\* a transcript with a line of the first round followed by a line of the bot
\* tagged with a later round
C22_Witness ==
  \E r \in Objects :
    /\ Len(heap[r].messages) >= 2
    /\ heap[r].messages[1].round = 1
    /\ heap[r].messages[Len(heap[r].messages)].round > 1
    /\ heap[r].messages[Len(heap[r].messages)].playerId = heap[r].botPlayerId

\* no bot-reply timer of object ref is armed and none of its callbacks is
\* waiting on generateBotRoast
BotQuiet(ref) ==
  /\ ~heap[ref].botTimerLive
  /\ \A r \in BagToSet(botReplies) : r.cur # ref

\* one bot battle in which the 60 s round timer fires only after the bot-reply
\* timers (0.7-4 s) and the reply calls of the round have run; the human may
\* send under any name
NextBotRound ==
  \/ Matchmaking(1, LifeBattles, {"ann"}, {"RoboRival"})
  \/ \E ref \in DOMAIN heap : BotQuiet(ref) /\ RoundTimerFire(ref)
  \/ \E j \in judging, jd \in Judgments : EndBattleJudged(j, jd)
  \/ \E j \in judging, ok \in BOOLEAN : EndBattleStored(j, ok)
  \/ \E j \in judging, w \in 1..2 : EndBattleCatch(j, w)
  \/ \E j \in judging : EndBattleReject(j)
  \/ \E s \in Sockets, id \in BattleIds, u \in UserNames :
       Has(battles, id) /\ RoomForLine(RefOf(id), MaxLines) /\ SendMessage(s, id, u)
  \/ \E ref \in DOMAIN heap : RoomInFlight /\ BotTimerFire(ref)
  \/ \E r \in BagToSet(botReplies) : RoomForLine(r.cur, MaxLines) /\ BotReplyDone(r)

SpecBotRound ==
  /\ InitQueue
  /\ [][NextBotRound]_vars
  /\ \A ref \in 1..LifeBattles :
       /\ WF_vars(RoomInFlight /\ BotTimerFire(ref))
       /\ WF_vars(BotQuiet(ref) /\ RoundTimerFire(ref))
  /\ WF_vars(\E r \in BagToSet(botReplies) : RoomForLine(r.cur, MaxLines) /\ BotReplyDone(r))

\* the lines of b that its synthetic participant wrote in round k
BotLines(b, k) ==
  {i \in 1..Len(b.messages) :
     b.messages[i].playerId = b.botPlayerId /\ b.messages[i].round = k}

\* C23: the transcript of a session with a synthetic participant holds at most
\* one line of the synthetic participant for each round.
C23_OneBotLinePerRound ==
  \A r \in Objects :
    heap[r].isBotBattle => \A k \in 1..MaxRounds : Cardinality(BotLines(heap[r], k)) <= 1

\* C24: when the round timer of an active session with a synthetic participant
\* fires, after the bot-reply timers and reply calls of the round have run, the
\* transcript holds a line of the synthetic participant tagged with the round
\* that ends.
C24_BotSpeaksEveryRound ==
  [][\A ref \in Objects :
       (/\ heap[ref].isBotBattle
        /\ heap[ref].status = "active"
        /\ InDirectory(ref)
        /\ BotQuiet(ref)
        /\ RoundTimerFire(ref))
       => BotLines(heap[ref], heap[ref].currentRound) # {}]_vars

\* connection s has been put in the waiting list at some time
Queued(s) ==
  \/ s \in waitingSet
  \/ \E c \in BagToSet(creating) : c.p1.id = s \/ c.p2.id = s
  \/ \E r \in 1..Len(heap) : \E i \in 1..2 : heap[r].players[i].id = s

\* three connections that each ask for a match once; the 60 s fallback timer
\* fires only for the first to wait, so that two createBattle calls that read
\* the same Date.now() are calls of one millisecond (a fallback timer firing
\* and a pairing), then rounds and human lines
NextClash ==
  \/ \E s \in 1..NSock : Connect(s)
  \/ \E s \in Sockets : ~Queued(s) /\ FindMatchEnqueue(s, "ann")
  \/ \E s \in Sockets : FindMatchDuplicate(s)
  \/ \E s \in Sockets :
       Len(heap) = 0 /\ creating = EmptyBag /\ FallbackTimerFire(s, "RoboRival")
  \/ \E c \in BagToSet(creating) : CreateBattleResume(c)
  \/ \E ref \in DOMAIN heap : RoundTimerFire(ref)
  \/ \E s \in Sockets, id \in BattleIds :
       Has(battles, id) /\ RoomForLine(RefOf(id), LifeMsgs) /\ SendMessage(s, id, "ann")

SpecClash == InitQueue /\ [][NextClash]_vars

\* the objects whose armed round timer calls nextRound(id)
RoundTimersOf(id) == {r \in Objects : heap[r].id = id /\ heap[r].timerLive}

\* the objects whose armed bot-reply timer acts on battles.get(id)
BotTimersOf(id) == {r \in Objects : heap[r].id = id /\ heap[r].botTimerLive}

\* C25: at every instant at most one armed round timer and at most one armed
\* bot-reply timer act on each session of the directory.
C25_OneTimerPerPurpose ==
  \A i \in 1..Len(battles) :
    /\ Cardinality(RoundTimersOf(battles[i].id)) <= 1
    /\ Cardinality(BotTimersOf(battles[i].id)) <= 1

\* C26: an ended session has no armed round timer and no armed bot-reply
\* timer.
C26_EndedHasNoTimers ==
  \A r \in Objects :
    heap[r].status = "ended" => ~heap[r].timerLive /\ ~heap[r].botTimerLive

\* C27: a findMatch from a connection that is in the waiting set leaves the
\* waiting list, the waiting set, the fallback timers and the directory as
\* they were and answers 'searchingMatch'; no connection is twice in the
\* waiting list.
C27_DuplicateIsNoOp ==
  /\ [][\A s \in Sockets :
          (conn[s] = "live" /\ s \in waitingSet /\ FindMatchStep(s))
          => /\ UNCHANGED <<waitingPlayers, waitingSet, botTimeouts, battles, creating>>
             /\ out' = "searchingMatch"]_vars
  /\ [](\A i, j \in 1..Len(waitingPlayers) :
          waitingPlayers[i].socketId = waitingPlayers[j].socketId => i = j)

\* totals and side difficulties of the judging calls of NextVerdict
Totals == {21, 22, 23}

Difficulties == {4, 5, 7}

AllJudgments ==
  [ok : BOOLEAN, t1 : Totals, t2 : Totals, d1 : Difficulties, d2 : Difficulties,
   pick : 1..2]

\* two humans, under any two display names, are paired and play their rounds;
\* the judging call meets any of AllJudgments
NextVerdict ==
  \/ \E s \in 1..LifeSock : Connect(s)
  \/ \E s \in Sockets, u \in UserNames : Load < MaxBattles /\ FindMatchEnqueue(s, u)
  \/ \E c \in BagToSet(creating) : CreateBattleResume(c)
  \/ \E ref \in DOMAIN heap : RoundTimerFire(ref)
  \/ \E j \in judging, jd \in AllJudgments : EndBattleJudged(j, jd)
  \/ \E j \in judging, ok \in BOOLEAN : EndBattleStored(j, ok)
  \/ \E j \in judging, w \in 1..2 : EndBattleCatch(j, w)
  \/ \E j \in judging : EndBattleReject(j)

SpecVerdict == Init /\ [][NextVerdict]_vars

\* endBattle ran to its end on object r
EndedNormally(r) ==
  /\ heap[r].result.kind \in {"judged", "fallback"}
  /\ \A j \in judging : j.ref # r

\* C28: once a session has ended normally with a store configured, each
\* participant with an origin token has exactly one profile update for it, a
\* win for the winner and a loss for the loser, and a participant without a
\* token has none.
C28_OneProfileUpdateEach ==
  \A r \in Objects :
    (mongoUri /\ EndedNormally(r)) =>
      \A i \in 1..2 :
        IF heap[r].players[i].ipHash # 0
        THEN IF heap[r].result.winner = heap[r].players[i].id
             THEN heap[r].profileWins[i] = 1 /\ heap[r].profileLosses[i] = 0
             ELSE heap[r].profileWins[i] = 0 /\ heap[r].profileLosses[i] = 1
        ELSE heap[r].profileWins[i] = 0 /\ heap[r].profileLosses[i] = 0

\* C29: in every Result of a normal end the participant reported as winner has
\* a total that is not lower than the other participant's.
C29_WinnerHasTopTotal ==
  \A r \in Objects :
    heap[r].result.kind \in {"judged", "fallback"} =>
      IF heap[r].result.winner = heap[r].players[1].id
      THEN heap[r].result.s1 >= heap[r].result.s2
      ELSE heap[r].result.s2 >= heap[r].result.s1

\* the store takes one more write in this step if a store is configured
StoredOneMore(r) ==
  heap'[r].stored = heap[r].stored + (IF mongoUri THEN 1 ELSE 0)

\* in this step object r gets a line or a Result
LineOrResult(r) ==
  heap'[r].messages # heap[r].messages \/ heap'[r].result # heap[r].result

\* in this step object r moves to another round
RoundMoves(r) == heap'[r].currentRound # heap[r].currentRound

\* a step that creates a session broadcasts once and issues one write
CreatedWithEffects ==
  \A r \in 1..Len(heap') :
    r > Len(heap) =>
      heap'[r].events = 1 /\ heap'[r].stored = (IF mongoUri THEN 1 ELSE 0)

Stale(id) == IF Has(battles, id) THEN heap[RefOf(id)].status = "ended" ELSE TRUE

\* the step leaves the directory and every session's status, round, transcript
\* and Result as they were and broadcasts nothing
Quiet ==
  /\ UNCHANGED battles
  /\ Len(heap') = Len(heap)
  /\ \A r \in Objects :
       /\ heap'[r].status = heap[r].status
       /\ heap'[r].currentRound = heap[r].currentRound
       /\ heap'[r].messages = heap[r].messages
       /\ heap'[r].result = heap[r].result
       /\ heap'[r].events = heap[r].events
       /\ heap'[r].ended = heap[r].ended
  /\ out' = NoOut

C32_RoundsAdvanceThenEnd ==
  /\ [][\A ref \in Objects :
          (/\ RoundTimerFire(ref)
           /\ Has(battles, heap[ref].id)
           /\ heap[RefOf(heap[ref].id)].status = "active")
          => LET t == RefOf(heap[ref].id)
             IN IF heap[t].currentRound < MaxRounds
                THEN /\ heap'[t].currentRound = heap[t].currentRound + 1
                     /\ heap'[t].rounds = heap[t].rounds + 1
                     /\ heap'[t].timerLive
                     /\ heap'[t].status = "active"
                ELSE /\ heap'[t].status = "ended"
                     /\ heap'[t].currentRound = heap[t].currentRound
                     /\ heap'[t].rounds = heap[t].rounds
                     /\ heap'[t].judged = heap[t].judged + 1]_vars
  /\ [](\A r \in Objects :
          /\ heap[r].rounds <= MaxRounds - 1
          /\ heap[r].judged >= 1 => heap[r].rounds = MaxRounds - 1)
  /\ \A r \in 1..MaxBattles :
       (r \in DOMAIN heap /\ InDirectory(r) /\ heap[r].status = "active")
         ~> (r \in DOMAIN heap /\ heap[r].status = "ended")

\* a session that was never forfeited ended on its third firing
C32_Witness ==
  \E r \in Objects :
    /\ heap[r].status = "ended"
    /\ heap[r].judged = 1
    /\ heap[r].rounds = MaxRounds - 1
    /\ heap[r].currentRound = MaxRounds
    /\ heap[r].result.kind # "forfeit"

\* C33: at the end of every event every entry of the waiting list has an armed
\* fallback timer for its connection (botTimeouts holds at most one per
\* connection).
C33_WaitingHasTimer == Waiting \subseteq botTimeouts

\* a connection waits with its timer armed while a battle of other
\* connections is in the directory
C33_Witness ==
  /\ Len(waitingPlayers) = 1
  /\ Head(waitingPlayers).socketId \in botTimeouts
  /\ Head(waitingPlayers).socketId \in Live
  /\ battles # <<>>

\* C34: the waiting set holds exactly the connections of the entries of the
\* waiting list.
C34_SetMatchesList == waitingSet = Waiting

\* C35: every line of a transcript carries the identity of one of the
\* session's two participants.
C35_LinesByParticipants ==
  \A r \in Objects :
    \A i \in 1..Len(heap[r].messages) :
      \E k \in 1..2 : heap[r].messages[i].playerId = heap[r].players[k].id

\* the sub-transcript handed to the judge for players[k]
SubTranscript(b, k) == IF k = 1 THEN b.player1Messages ELSE b.player2Messages

\* the line was sent on the handle players[k] was created with or on the handle
\* players[k] is bound to now
SentBy(b, msg, k) == msg.playerId \in {b.players[k].id, b.players[k].socketId}

\* every line of a participant is in that participant's sub-transcript
Partitioned(b) ==
  \A i \in 1..Len(b.messages), k \in 1..2 :
    SentBy(b, b.messages[i], k) =>
      \E n \in 1..Len(SubTranscript(b, k)) : SubTranscript(b, k)[n] = b.messages[i]

\* C36: when endBattle calls the judge, every line a participant sent, on its
\* first handle or on the handle it reconnected with, is in that participant's
\* sub-transcript (so the two sub-transcripts cover a transcript of
\* participants' lines).
C36_JudgeSeesEveryLine ==
  [][\A r \in 1..LifeBattles :
       (r \in DOMAIN heap /\ r \in DOMAIN heap' /\ heap'[r].judged > heap[r].judged)
         => Partitioned(heap'[r])]_vars

\* C37: every active battle of the directory has both of its human players
\* bound to live connections.
C37_ActivePlayersLive ==
  \A k \in 1..Len(battles) :
    heap[battles[k].ref].status = "active" =>
      \A i \in 1..2 :
        ~heap[battles[k].ref].players[i].isBot =>
          conn[heap[battles[k].ref].players[i].socketId] = "live"

\* no step replaces the object the directory holds under an id
NeverOverwrites ==
  \A i \in 1..Len(battles), j \in 1..Len(battles') :
    battles[i].id = battles'[j].id => battles[i].ref = battles'[j].ref

\* an armed round timer or bot-reply timer whose id is in the directory was
\* armed on the object the directory holds under that id
TimersActOnOwn ==
  \A r \in Objects :
    (heap[r].timerLive \/ heap[r].botTimerLive) /\ Has(battles, heap[r].id)
      => RefOf(heap[r].id) = r

\* C38: a created session never takes the id of a session of the directory: no
\* creation overwrites a directory entry, and the timers of a session act on
\* that session only.
C38_IdsUnique == [][NeverOverwrites]_vars /\ []TimersActOnOwn

\* connections of which the last ones share an origin, several battles in
\* flight and their spectators
NextGone ==
  \/ \E s \in 1..NSock : Connect(s) /\ ipOf'[s] = IF s < NIp THEN s ELSE NIp
  \/ \E s \in Sockets : FindMatchReconnect(s)
  \/ \E s \in Sockets : Load < MaxBattles /\ FindMatchEnqueue(s, "ann")
  \/ \E s \in Sockets : Disconnect(s)
  \/ \E c \in BagToSet(creating) : CreateBattleResume(c)
  \/ \E s \in Sockets : FallbackTimerFire(s, "RoboRival")
  \/ \E s \in 2..NSock, id \in BattleIds : JoinSpectator(s, id)

SpecGone == InitQueue /\ [][NextGone]_vars

Watches(b, s) == \E n \in 1..Len(b.spectators) : b.spectators[n] = s

\* the state a disconnect of connection s leaves behind
AfterDisconnect(s) ==
  /\ \A i \in 1..Len(waitingPlayers') : waitingPlayers'[i].socketId # s
  /\ \A k \in 1..Len(battles') : ~Watches(heap'[battles'[k].ref], s)
  /\ \A k \in 1..Len(battles) :
       PlayerIndexOf(heap[battles[k].ref], s) = 0 /\ ~Watches(heap[battles[k].ref], s)
         => /\ heap'[battles[k].ref] = heap[battles[k].ref]
            /\ \E j \in 1..Len(battles') : battles'[j] = battles[k]

\* C39: once the disconnect of a connection is processed, the connection is in
\* no entry of the waiting list and in no spectator list of the directory, and
\* the battles in which it neither played nor watched are as they were.
C39_DisconnectLeavesNoTrace ==
  [][\A s \in 1..NSock : (conn[s] = "live" /\ conn'[s] = "dead") => AfterDisconnect(s)]_vars

\* a connection is gone, the battle it played was forfeited, and another battle
\* of the directory in which it had no part goes on
C39_Witness ==
  \E s \in 1..NSock :
    /\ conn[s] = "dead"
    /\ \E k \in 1..Len(battles) :
         /\ heap[battles[k].ref].result.kind = "forfeit"
         /\ PlayerIndexOf(heap[battles[k].ref], s) # 0
    /\ \E k \in 1..Len(battles) :
         /\ heap[battles[k].ref].status = "active"
         /\ PlayerIndexOf(heap[battles[k].ref], s) = 0
         /\ heap[battles[k].ref].spectators # <<>>

\* the nominal ceiling of a total: three categories of at most 10 points
MaxTotal == 30

\* what a judging call meets when the performances are rated at or next to the
\* ceiling: totals the oracle gives, or the sums getFallbackJudgment draws
CeilingJudgments ==
  [ok : BOOLEAN, t1 : {MaxTotal - 1, MaxTotal}, t2 : {MaxTotal - 1, MaxTotal},
   d1 : {4, 7}, d2 : {4, 7}, pick : 1..2]

\* two humans are paired and play their rounds or forfeit by disconnecting;
\* the judging call meets any of CeilingJudgments
NextCeiling ==
  \/ \E s \in 1..LifeSock : Connect(s)
  \/ \E s \in Sockets : Load < MaxBattles /\ FindMatchEnqueue(s, "ann")
  \/ \E s \in Sockets : Disconnect(s)
  \/ \E c \in BagToSet(creating) : CreateBattleResume(c)
  \/ \E ref \in DOMAIN heap : RoundTimerFire(ref)
  \/ \E j \in judging, jd \in CeilingJudgments : EndBattleJudged(j, jd)
  \/ \E j \in judging, ok \in BOOLEAN : EndBattleStored(j, ok)
  \/ \E j \in judging, w \in 1..2 : EndBattleCatch(j, w)
  \/ \E j \in judging : EndBattleReject(j)
  \/ \E id \in BattleIds : CleanupFire(id)

SpecCeiling == InitQueue /\ [][NextCeiling]_vars

\* C40: in every Result, of a forfeit, of the oracle with its fairness bonus,
\* of the oracle's fallback or of the server's fallback, each total lies
\* between 0 and 30.
C40_TotalsWithinCeiling ==
  \A r \in Objects :
    heap[r].result.kind # "none" =>
      /\ heap[r].result.s1 \in 0..MaxTotal
      /\ heap[r].result.s2 \in 0..MaxTotal

====
